---- MODULE Spec2Model ----
(***************************************************************************)
(* A model of route.py (route-smoother): a Route holds the raw line string *)
(* read from a KML file and, once a smoothing stage has run, a smoothened   *)
(* line string.  Coordinates are (lon, lat, elevation) triples in units of  *)
(* 0.00001 degree; geodesic lengths are whole metres.                       *)
(***************************************************************************)
EXTENDS Integers, Sequences, FiniteSets, TLC

VARIABLES gdf, line_string, smoothened_line_string, last, stage_completed

vars == <<gdf, line_string, smoothened_line_string, last, stage_completed>>

\* ------------------------------------------------------------------ bounds

\* Longest line string read from a file.
MaxLen == 4

\* Longest line string of the validation specification.
MaxLenV == 3

\* ------------------------------------------------------------------ values

\* Python's None.  The code only ever tests the smoothened line string for
\* truthiness, where None and an empty geometry are alike.
None == << >>

\* The coordinates a track is drawn from: the corners of a right triangle.
Points == { <<0, 0, 0>>, <<3, 0, 0>>, <<3, 4, 0>> }

\* The coordinates of the specifications of a single stage: those of Points,
\* a third point on the line of the first two, one close to the first, and
\* one that differs from another in elevation only.
PointsF == Points \cup { <<6, 0, 0>>, <<1, 1, 0>>, <<3, 0, 1>> }

\* The coordinates of the validation specification.
PointsV == { <<0, 0, 0>>, <<3, 4, 0>> }

\* Sequences over S of length lo..hi.
SeqsOf(S, lo, hi) == UNION { [1..n -> S] : n \in lo..hi }

\* An argument of smoothen_route: an int, a float (val + 0.5, so never
\* integral) or the string "de".
IntArg(n) == [type |-> "int", val |-> n]
FloatArg(n) == [type |-> "float", val |-> n]
StrArg == [type |-> "str", val |-> 0]
NoArg == [type |-> "none", val |-> 0]

\* ------------------------------------------------------------------ geodesic length

\* The integer square root (the length truncated to whole metres).
Isqrt(n) == CHOOSE r \in 0..n : r * r <= n /\ (r + 1) * (r + 1) > n

SqDiff(p, q) ==
    (p[1] - q[1]) * (p[1] - q[1]) + (p[2] - q[2]) * (p[2] - q[2])

\* geod.geometry_length(LineString([p, q])): a function of longitude and
\* latitude only, symmetric, zero for equal longitude and latitude, computed
\* to finite precision.
DistanceTable == [p \in PointsF, q \in PointsF |-> Isqrt(SqDiff(p, q))]

Distance(p, q) == DistanceTable[p, q]

RECURSIVE geometry_length(_)
geometry_length(line) ==
    IF Len(line) < 2 THEN 0
    ELSE Distance(line[1], line[2]) + geometry_length(Tail(line))

\* ------------------------------------------------------------------ Route helpers

\* bool(geometry): a shapely geometry is falsy when it is empty.
Truthy(g) == Len(g) > 0

\* __get_line_string that never looks at the smoothened line string.
get_line_string_raw(ls, sm) == ls

get_line_string(ls, sm) == IF Truthy(sm) THEN sm ELSE ls

\* LineString(filtered_coords), filtered_coords given by the indices kept.
CoordsAt(line_coords, filtered) ==
    [k \in 1..Len(filtered) |-> line_coords[filtered[k]]]

\* i == 0 or i == len(line_coords) - 1, for the 1-based index i.
is_first_or_last(i, n) == i = 1 \/ i = n

\* The coordinate before line_coord in the input, not the last one kept.
previous_input(line_coords, filtered, i) == line_coords[i - 1]

\* filtered_coords[-1]
last_filtered(line_coords, filtered, i) == line_coords[filtered[Len(filtered)]]

\* ------------------------------------------------------------------ _smoothen_by_distance

distance_keeps(current_distance, cutoff_distance) ==
    current_distance < cutoff_distance

\* The loop of _smoothen_by_distance from index i on; filtered holds the
\* indices of the coordinates appended so far.
RECURSIVE distance_loop(_, _, _, _)
distance_loop(line_coords, cutoff_distance, i, filtered) ==
    IF i > Len(line_coords) THEN filtered
    ELSE IF is_first_or_last(i, Len(line_coords))
    THEN distance_loop(line_coords, cutoff_distance, i + 1, Append(filtered, i))
    ELSE LET current_distance ==
                 Distance(last_filtered(line_coords, filtered, i), line_coords[i])
         IN  IF distance_keeps(current_distance, cutoff_distance)
             THEN distance_loop(line_coords, cutoff_distance, i + 1,
                                Append(filtered, i))
             ELSE distance_loop(line_coords, cutoff_distance, i + 1, filtered)

\* _smoothen_by_distance with only the first coordinate kept
\* unconditionally: the last one has to pass the distance test too.
distance_kept_first_only(line_coords, cutoff_distance) ==
    LET K == distance_loop(line_coords, cutoff_distance, 1, << >>)
        n == Len(K)
    IN  IF n < 2 \/ distance_keeps(Distance(line_coords[K[n - 1]],
                                            line_coords[K[n]]),
                                   cutoff_distance)
        THEN K
        ELSE SubSeq(K, 1, n - 1)

distance_kept(line_coords, cutoff_distance) ==
    distance_loop(line_coords, cutoff_distance, 1, << >>)

smoothen_by_distance(line_coords, cutoff_distance) ==
    CoordsAt(line_coords, distance_kept(line_coords, cutoff_distance))

\* ------------------------------------------------------------------ __get_point_angle

\* The angles the model tells apart.  An angle is represented by the largest
\* of these that does not exceed it, so that comparing it with a cutoff that
\* is one of them is exact.
AngleGrid == {0, 30, 45, 60, 90, 120, 135, 150, 180}

\* cos(t) = CosSign(t) * sqrt(CosSq4(t)) / 2
CosSign(t) == IF t < 90 THEN 1 ELSE IF t = 90 THEN 0 ELSE -1

CosSq4(t) ==
    CASE t \in {0, 180} -> 4
      [] t \in {30, 150} -> 3
      [] t \in {45, 135} -> 2
      [] t \in {60, 120} -> 1
      [] t = 90 -> 0

\* acos(N / D) >= t degrees, i.e. N / D <= cos(t), for D > 0.
AcosAtLeast(N, D, t) ==
    IF CosSign(t) >= 0
    THEN N <= 0 \/ 4 * N * N <= CosSq4(t) * D * D
    ELSE N <= 0 /\ 4 * N * N >= CosSq4(t) * D * D

\* degrees(acos(N / D)) for -1 <= N / D <= 1.
DegreesAcos(N, D) ==
    CHOOSE t \in AngleGrid :
        /\ AcosAtLeast(N, D, t)
        /\ \A u \in AngleGrid : AcosAtLeast(N, D, u) => u <= t

\* The angle by which the path turns at the point, not the angle between
\* the two lines.
get_point_angle_turn(A, B, C) ==
    LET N == A * A + C * C - B * B
        D == 2 * A * C
    IN  IF D = 0 THEN 0
        ELSE IF N > D \/ N < -D THEN 0
        ELSE 180 - DegreesAcos(N, D)

\* A straight angle where the computation fails.
get_point_angle_straight_on_error(A, B, C) ==
    LET N == A * A + C * C - B * B
        D == 2 * A * C
    IN  IF D = 0 THEN 180
        ELSE IF N > D \/ N < -D THEN 180
        ELSE DegreesAcos(N, D)

get_point_angle(A, B, C) ==
    LET N == A * A + C * C - B * B
        D == 2 * A * C
    IN  IF D = 0 THEN 0                      \* ZeroDivisionError
        ELSE IF N > D \/ N < -D THEN 0       \* ValueError: math domain error
        ELSE DegreesAcos(N, D)

\* ------------------------------------------------------------------ _smoothen_by_angle

angle_drops(angle, cutoff_angle) == angle < cutoff_angle

\* The angle _smoothen_by_angle computes at index i, given the indices kept
\* so far.
angle_at(line_coords, filtered, i) ==
    LET previous_to_current_distance ==
            Distance(last_filtered(line_coords, filtered, i), line_coords[i])
        current_to_next_distance == Distance(line_coords[i], line_coords[i + 1])
        previous_to_next_distance ==
            Distance(last_filtered(line_coords, filtered, i), line_coords[i + 1])
    IN  get_point_angle(previous_to_current_distance,
                        previous_to_next_distance,
                        current_to_next_distance)

RECURSIVE angle_loop(_, _, _, _)
angle_loop(line_coords, cutoff_angle, i, filtered) ==
    IF i > Len(line_coords) THEN filtered
    ELSE IF is_first_or_last(i, Len(line_coords))
    THEN angle_loop(line_coords, cutoff_angle, i + 1, Append(filtered, i))
    ELSE IF angle_drops(angle_at(line_coords, filtered, i), cutoff_angle)
    THEN angle_loop(line_coords, cutoff_angle, i + 1, filtered)
    ELSE angle_loop(line_coords, cutoff_angle, i + 1, Append(filtered, i))

angle_kept(line_coords, cutoff_angle) ==
    angle_loop(line_coords, cutoff_angle, 1, << >>)

\* _smoothen_by_angle appending line_coords[i + 1] where it should append
\* line_coord.
smoothen_by_angle_appends_next(line_coords, cutoff_angle) ==
    LET K == angle_kept(line_coords, cutoff_angle)
    IN  [k \in 1..Len(K) |->
            IF 1 < K[k] /\ K[k] < Len(line_coords)
            THEN line_coords[K[k] + 1] ELSE line_coords[K[k]]]

smoothen_by_angle(line_coords, cutoff_angle) ==
    CoordsAt(line_coords, angle_kept(line_coords, cutoff_angle))

\* ------------------------------------------------------------------ _smoothen_by_simplifying

\* 0.00003 degree, the tolerance of one granular level, in coordinate units.
ToleranceStep == 3

Dot(p, a, b) == (p[1] - a[1]) * (b[1] - a[1]) + (p[2] - a[2]) * (b[2] - a[2])

Cross(p, a, b) == (b[1] - a[1]) * (p[2] - a[2]) - (b[2] - a[2]) * (p[1] - a[1])

\* The squared distance of p from the segment a-b in the longitude/latitude
\* plane, as a fraction <<numerator, denominator>>.
SegmentDistSq(p, a, b) ==
    IF SqDiff(a, b) = 0 \/ Dot(p, a, b) <= 0 THEN <<SqDiff(p, a), 1>>
    ELSE IF Dot(p, a, b) >= SqDiff(a, b) THEN <<SqDiff(p, b), 1>>
    ELSE <<Cross(p, a, b) * Cross(p, a, b), SqDiff(a, b)>>

FracGreater(r, q) == r[1] * q[2] > q[1] * r[2]

\* The index strictly between i and j farthest from the chord i-j (the
\* first such index).
Farthest(line, i, j) ==
    CHOOSE k \in (i + 1)..(j - 1) :
        \A m \in (i + 1)..(j - 1) :
            LET dk == SegmentDistSq(line[k], line[i], line[j])
                dm == SegmentDistSq(line[m], line[i], line[j])
            IN  /\ ~FracGreater(dm, dk)
                /\ (m < k => FracGreater(dk, dm))

\* Within the tolerance: the section collapses to its two ends.
within_tolerance(distSq, tolerance) ==
    distSq[1] <= tolerance * tolerance * distSq[2]

\* Douglas-Peucker: the indices strictly between i and j that are kept.
RECURSIVE simplify_section(_, _, _, _)
simplify_section(line, i, j, tolerance) ==
    IF j <= i + 1 THEN {}
    ELSE LET k == Farthest(line, i, j)
         IN  IF within_tolerance(SegmentDistSq(line[k], line[i], line[j]),
                                 tolerance)
             THEN {}
             ELSE simplify_section(line, i, k, tolerance) \cup {k}
                  \cup simplify_section(line, k, j, tolerance)

simplify_kept(line, tolerance) ==
    LET K == {1, Len(line)} \cup simplify_section(line, 1, Len(line), tolerance)
    IN  SelectSeq([i \in 1..Len(line) |-> i], LAMBDA i : i \in K)

\* LineString.simplify(tolerance)
simplify(line, tolerance) == CoordsAt(line, simplify_kept(line, tolerance))

smoothen_by_simplifying(line, granular_level) ==
    LET tolerance == granular_level * ToleranceStep
    IN  simplify(line, tolerance)

\* ------------------------------------------------------------------ __remove_close_duplicate_coords

\* Comparing longitude and latitude only.
coords_differ_lon_lat(line_coord, previous) ==
    line_coord[1] # previous[1] \/ line_coord[2] # previous[2]

coords_differ(line_coord, previous) == line_coord # previous

RECURSIVE remove_loop(_, _, _)
remove_loop(line_coords, i, filtered_coords) ==
    IF i > Len(line_coords) THEN filtered_coords
    ELSE IF i = 1
    THEN remove_loop(line_coords, i + 1, Append(filtered_coords, line_coords[i]))
    ELSE IF coords_differ(line_coords[i], filtered_coords[Len(filtered_coords)])
    THEN remove_loop(line_coords, i + 1, Append(filtered_coords, line_coords[i]))
    ELSE remove_loop(line_coords, i + 1, filtered_coords)

remove_close_duplicate_coords(line_coords) == remove_loop(line_coords, 1, << >>)

\* ------------------------------------------------------------------ __validate_smoothen_input

GranularMax == 10
AngleMax == 60
DistanceMax == 1000

\* x < k and x > k for an int or a float (val + 0.5) x and an int k.
ArgLess(x, k) == x.val < k
ArgGreater(x, k) == IF x.type = "float" THEN x.val >= k ELSE x.val > k

\* The two checks of one parameter: the range first, then isinstance.
\* Comparing a str with an int raises TypeError.
validate_one(x, hi) ==
    IF x.type = "str" THEN "TypeError"
    ELSE IF ArgLess(x, 0) \/ ArgGreater(x, hi) THEN "ValueError"
    ELSE IF x.type # "int" THEN "ValueError"
    ELSE "ok"

validate_smoothen_input(granular_level, cutoff_angle, cutoff_distance) ==
    IF validate_one(granular_level, GranularMax) # "ok"
    THEN validate_one(granular_level, GranularMax)
    ELSE IF validate_one(cutoff_angle, AngleMax) # "ok"
    THEN validate_one(cutoff_angle, AngleMax)
    ELSE validate_one(cutoff_distance, DistanceMax)

\* ------------------------------------------------------------------ smoothen_route

\* smoothen_route validating only after the distance stage has run.
smoothen_route_call_late_validation(ls, sm, granular_level, cutoff_angle, cutoff_distance) ==
    LET v == validate_smoothen_input(granular_level, cutoff_angle, cutoff_distance)
        in1 == get_line_string(ls, sm)
        sm1 == smoothen_by_distance(in1, cutoff_distance.val)
        in2 == get_line_string(ls, sm1)
        sm2 == smoothen_by_angle(in2, cutoff_angle.val)
        in3 == get_line_string(ls, sm2)
        sm3 == smoothen_by_simplifying(in3, granular_level.val)
    IN  IF v # "ok"
        THEN [result |-> v, stages |-> <<"distance">>, reads |-> <<in1>>,
              smoothened |-> sm1]
        ELSE [result |-> "ok",
              stages |-> <<"distance", "angle", "simplifying">>,
              reads |-> <<in1, in2, in3>>,
              smoothened |-> sm3]

\* smoothen_route running the angle stage before the distance stage.
smoothen_route_call_angle_first(ls, sm, granular_level, cutoff_angle, cutoff_distance) ==
    LET v == validate_smoothen_input(granular_level, cutoff_angle, cutoff_distance)
        in1 == get_line_string(ls, sm)
        sm1 == smoothen_by_angle(in1, cutoff_angle.val)
        in2 == get_line_string(ls, sm1)
        sm2 == smoothen_by_distance(in2, cutoff_distance.val)
        in3 == get_line_string(ls, sm2)
        sm3 == smoothen_by_simplifying(in3, granular_level.val)
    IN  IF v # "ok"
        THEN [result |-> v, stages |-> << >>, reads |-> << >>, smoothened |-> sm]
        ELSE [result |-> "ok",
              stages |-> <<"distance", "angle", "simplifying">>,
              reads |-> <<in1, in2, in3>>,
              smoothened |-> sm3]

\* The body of smoothen_route on a Route whose line strings are ls and sm:
\* how the call ends, the stages it ran, the line string each stage read and
\* the smoothened line string it leaves.
smoothen_route_call(ls, sm, granular_level, cutoff_angle, cutoff_distance) ==
    LET v == validate_smoothen_input(granular_level, cutoff_angle, cutoff_distance)
        in1 == get_line_string(ls, sm)
        sm1 == smoothen_by_distance(in1, cutoff_distance.val)
        in2 == get_line_string(ls, sm1)
        sm2 == smoothen_by_angle(in2, cutoff_angle.val)
        in3 == get_line_string(ls, sm2)
        sm3 == smoothen_by_simplifying(in3, granular_level.val)
    IN  IF v # "ok"
        THEN [result |-> v, stages |-> << >>, reads |-> << >>, smoothened |-> sm]
        ELSE [result |-> "ok",
              stages |-> <<"distance", "angle", "simplifying">>,
              reads |-> <<in1, in2, in3>>,
              smoothened |-> sm3]

\* ------------------------------------------------------------------ get_total_distance

\* f"{metres / 1000:.3f}": the kilometres and the three decimals.
FormatKm(metres) == <<metres \div 1000, metres % 1000>>

\* ------------------------------------------------------------------ state

\* What the last call was given, what it read and how it ended.
Call(op, g, a, d, input, result, stages, reads, kept, ret) ==
    [op |-> op, granular_level |-> g, cutoff_angle |-> a, cutoff_distance |-> d,
     input |-> input, result |-> result, stages |-> stages, reads |-> reads,
     kept |-> kept, ret |-> ret]

\* Route(path): the file holds the line string coords.
Constructed(coords) ==
    /\ gdf = coords
    /\ line_string = remove_close_duplicate_coords(coords)
    /\ smoothened_line_string = None
    /\ last = Call("__init__", NoArg, NoArg, NoArg, coords, "ok", << >>, << >>,
                   << >>, None)
    /\ stage_completed = FALSE

\* A line string has at least two coordinates, before and after the
\* consecutive duplicates are removed (LineString rejects a single one).
InitOver(S, n) ==
    \E coords \in SeqsOf(S, 2, n) :
        /\ Len(remove_close_duplicate_coords(coords)) >= 2
        /\ Constructed(coords)

Init == InitOver(Points, MaxLen)

InitF == InitOver(PointsF, MaxLen)

InitV == InitOver(PointsV, MaxLenV)

\* The cutoffs the stages are called with.
DistanceCutoffs == {0, 4, 1000}
AngleCutoffs == {0, 30, 45, 60}
GranularLevels == {0, 1, 10}

\* The arguments smoothen_route is called with.
RouteGranularLevels == {IntArg(1), IntArg(11)}
RouteCutoffAngles == {IntArg(30), IntArg(60)}
RouteCutoffDistances == {IntArg(4), IntArg(1000)}

\* The arguments of the validation specification: the ends of each range,
\* the values next to them, a float inside the range and a str.
GranularArgs ==
    {IntArg(-1), IntArg(0), IntArg(GranularMax), IntArg(GranularMax + 1),
     FloatArg(2), StrArg}
AngleArgs ==
    {IntArg(-1), IntArg(0), IntArg(AngleMax), IntArg(AngleMax + 1),
     FloatArg(30), StrArg}
DistanceArgs ==
    {IntArg(-1), IntArg(0), IntArg(DistanceMax), IntArg(DistanceMax + 1),
     FloatArg(4), StrArg}

\* ------------------------------------------------------------------ actions

SmoothenByDistance ==
    \E cutoff_distance \in DistanceCutoffs :
        LET input == get_line_string(line_string, smoothened_line_string)
        IN  /\ smoothened_line_string' = smoothen_by_distance(input, cutoff_distance)
            /\ last' = Call("_smoothen_by_distance", NoArg, NoArg,
                            IntArg(cutoff_distance), input, "ok", <<"distance">>,
                            <<input>>, distance_kept(input, cutoff_distance), None)
            /\ stage_completed' = TRUE
            /\ UNCHANGED <<gdf, line_string>>

SmoothenByAngle ==
    \E cutoff_angle \in AngleCutoffs :
        LET input == get_line_string(line_string, smoothened_line_string)
        IN  /\ smoothened_line_string' = smoothen_by_angle(input, cutoff_angle)
            /\ last' = Call("_smoothen_by_angle", NoArg, IntArg(cutoff_angle),
                            NoArg, input, "ok", <<"angle">>, <<input>>,
                            angle_kept(input, cutoff_angle), None)
            /\ stage_completed' = TRUE
            /\ UNCHANGED <<gdf, line_string>>

SmoothenBySimplifying ==
    \E granular_level \in GranularLevels :
        LET input == get_line_string(line_string, smoothened_line_string)
        IN  /\ smoothened_line_string' = smoothen_by_simplifying(input, granular_level)
            /\ last' = Call("_smoothen_by_simplifying", IntArg(granular_level),
                            NoArg, NoArg, input, "ok", <<"simplifying">>,
                            <<input>>,
                            simplify_kept(input, granular_level * ToleranceStep),
                            None)
            /\ stage_completed' = TRUE
            /\ UNCHANGED <<gdf, line_string>>

smoothen_route(granular_level, cutoff_angle, cutoff_distance) ==
    LET input == get_line_string(line_string, smoothened_line_string)
        call == smoothen_route_call(line_string, smoothened_line_string,
                                    granular_level, cutoff_angle, cutoff_distance)
    IN  /\ smoothened_line_string' = call.smoothened
        /\ last' = Call("smoothen_route", granular_level, cutoff_angle,
                        cutoff_distance, input, call.result, call.stages,
                        call.reads, << >>, None)
        /\ stage_completed' = (stage_completed \/ call.stages # << >>)
        /\ UNCHANGED <<gdf, line_string>>

SmoothenRoute ==
    \E g \in RouteGranularLevels, a \in RouteCutoffAngles,
       d \in RouteCutoffDistances : smoothen_route(g, a, d)

SmoothenRouteV ==
    \E g \in GranularArgs, a \in AngleArgs, d \in DistanceArgs :
        smoothen_route(g, a, d)

GetTotalDistance ==
    LET input == get_line_string(line_string, smoothened_line_string)
    IN  /\ last' = Call("get_total_distance", NoArg, NoArg, NoArg, input, "ok",
                        << >>, << >>, << >>, FormatKm(geometry_length(input)))
        /\ UNCHANGED <<gdf, line_string, smoothened_line_string, stage_completed>>

\* to_file(path): the path only names the file that is written.
ToFile ==
    LET input == get_line_string(line_string, smoothened_line_string)
    IN  /\ gdf' = input
        /\ last' = Call("to_file", NoArg, NoArg, NoArg, input, "ok", << >>,
                        << >>, << >>, None)
        /\ UNCHANGED <<line_string, smoothened_line_string, stage_completed>>

Next ==
    \/ SmoothenByDistance
    \/ SmoothenByAngle
    \/ SmoothenBySimplifying
    \/ SmoothenRoute
    \/ GetTotalDistance
    \/ ToFile

NextV == SmoothenRouteV \/ SmoothenByAngle

\* One stage alone, and the calls that only read.
NextDistance == SmoothenByDistance \/ GetTotalDistance

NextAngle == SmoothenByAngle \/ GetTotalDistance

NextLoad == GetTotalDistance \/ ToFile

Spec == Init /\ [][Next]_vars

SpecV == InitV /\ [][NextV]_vars

SpecDistance == InitF /\ [][NextDistance]_vars

SpecAngle == InitF /\ [][NextAngle]_vars

SpecLoad == InitF /\ [][NextLoad]_vars

\* ------------------------------------------------------------------ properties

AllStages == <<"distance", "angle", "simplifying">>

\* C1: a rejected smoothen_route call has no effect.  A smoothen_route call
\* that ends in an error ran no stage and leaves the smoothened line string
\* (absent or present) and the raw line string as they were; a call that ends
\* without an error ran all three stages; so a call runs all three stages or
\* none.
C1_RejectedCallHasNoEffect ==
    [][ last'.op = "smoothen_route" =>
          /\ last'.result \in {"ok", "ValueError", "TypeError"}
          /\ last'.stages \in {<< >>, AllStages}
          /\ (last'.result = "ok") = (last'.stages = AllStages)
          /\ last'.result # "ok" =>
                /\ smoothened_line_string' = smoothened_line_string
                /\ line_string' = line_string
                /\ stage_completed' = stage_completed ]_vars

\* A rejected call on a Route whose smoothened line string is present and
\* differs from the raw one.
C1_Witness ==
    /\ last.op = "smoothen_route"
    /\ last.result # "ok"
    /\ stage_completed
    /\ smoothened_line_string # line_string

\* An int inside [0, hi].
GoodArg(x, hi) == x.type = "int" /\ 0 <= x.val /\ x.val <= hi

GoodArgs(c) ==
    /\ GoodArg(c.granular_level, 10)
    /\ GoodArg(c.cutoff_angle, 60)
    /\ GoodArg(c.cutoff_distance, 1000)

\* C2: smoothen_route raises ValueError whenever one of the three arguments
\* is outside its range or is not an int (a float inside the range, a str),
\* whatever the other two are, and raises nothing when all three are ints
\* inside their ranges.
C2_ValueErrorForEveryBadArgument ==
    last.op = "smoothen_route" =>
        last.result = (IF GoodArgs(last) THEN "ok" ELSE "ValueError")

\* The first and the last coordinate of a line string.
Ends(line) == <<line[1], line[Len(line)]>>

\* The line string the next call reads, by the stages completed so far.
Current == IF stage_completed THEN smoothened_line_string ELSE line_string

\* C3: on a Route whose raw line string has at least 2 coordinates, once a
\* stage has run the smoothened line string has at least 2 coordinates and
\* its first and last coordinates are those of the raw line string; after a
\* call that ran stages, every stage of the call read a line string with the
\* ends of the call's input, and wrote one with the same ends.
C3_StagesKeepTheEnds ==
    /\ Len(line_string) >= 2
    /\ stage_completed =>
          /\ Len(smoothened_line_string) >= 2
          /\ Ends(smoothened_line_string) = Ends(line_string)
    /\ last.stages # << >> =>
          /\ Len(last.input) >= 2
          /\ Ends(smoothened_line_string) = Ends(last.input)
          /\ \A k \in 1..Len(last.reads) :
                /\ Len(last.reads[k]) >= 2
                /\ Ends(last.reads[k]) = Ends(last.input)

\* A smoothen_route call that read 4 coordinates and left only the two ends.
C3_Witness ==
    /\ last.op = "smoothen_route"
    /\ last.stages = AllStages
    /\ Len(last.input) = 4
    /\ Len(smoothened_line_string) = 2

\* C4: every call (a length query, an export, a stage, smoothen_route) reads
\* the smoothened line string if a stage has completed on the Route and the
\* raw line string otherwise; and once a stage has completed, the smoothened
\* line string stays present, so that no later call reads the raw one.
C4_ReadsSmoothenedIffAStageCompleted ==
    [][ /\ last'.input =
              (IF stage_completed THEN smoothened_line_string ELSE line_string)
        /\ stage_completed => stage_completed'
        /\ stage_completed' => Len(smoothened_line_string') >= 2
        /\ ~stage_completed' => smoothened_line_string' = None ]_vars

\* A length query that read a smoothened line string differing from the raw
\* one.
C4_Witness ==
    /\ last.op = "get_total_distance"
    /\ stage_completed
    /\ last.input = smoothened_line_string
    /\ smoothened_line_string # line_string

\* C5: an accepted smoothen_route call runs distance, angle, simplifying in
\* that order, once each: the distance stage reads the smoothened line string
\* if it is present and the raw one otherwise, the angle stage reads what the
\* distance stage returns on that, the simplifying stage reads what the angle
\* stage returns on that, and its result is the smoothened line string the
\* call leaves.
C5_AcceptedCallRunsTheStagesInOrder ==
    [][ (last'.op = "smoothen_route" /\ last'.result = "ok") =>
          /\ last'.stages = <<"distance", "angle", "simplifying">>
          /\ Len(last'.reads) = 3
          /\ last'.reads[1] =
                (IF smoothened_line_string # None
                 THEN smoothened_line_string ELSE line_string)
          /\ last'.reads[2] =
                smoothen_by_distance(last'.reads[1], last'.cutoff_distance.val)
          /\ last'.reads[3] =
                smoothen_by_angle(last'.reads[2], last'.cutoff_angle.val)
          /\ smoothened_line_string' =
                smoothen_by_simplifying(last'.reads[3], last'.granular_level.val)
      ]_vars

\* An accepted call on a Route that was smoothened before: it read the
\* smoothened line string, its angle stage read what its distance stage had
\* left of that, and the call removed a coordinate.
C5_Witness ==
    /\ last.op = "smoothen_route"
    /\ last.result = "ok"
    /\ last.input # line_string
    /\ last.reads[1] = last.input
    /\ Len(last.reads[2]) < Len(last.reads[1])
    /\ smoothened_line_string = last.reads[2]

\* s is t with some of its elements left out.
RECURSIVE IsSubseq(_, _)
IsSubseq(s, t) ==
    IF s = << >> THEN TRUE
    ELSE IF t = << >> THEN FALSE
    ELSE IF Head(s) = Head(t) THEN IsSubseq(Tail(s), Tail(t))
    ELSE IsSubseq(s, Tail(t))

\* C10: no call changes the raw line string; the smoothened line string,
\* when present, is the raw one with some coordinates left out (nothing new,
\* nothing reordered, nothing repeated); and the number of coordinates of the
\* current line string never grows.
C10_SmoothenedIsASubsequenceOfRaw ==
    [][ /\ line_string' = line_string
        /\ stage_completed' =>
              /\ IsSubseq(smoothened_line_string', line_string)
              /\ IsSubseq(smoothened_line_string', Current)
        /\ Len(Current') <= Len(Current) ]_vars

\* A rejected smoothen_route call on a Route smoothened down to fewer
\* coordinates than the raw line string has.
C10_Witness ==
    /\ last.op = "smoothen_route"
    /\ last.result # "ok"
    /\ stage_completed
    /\ Len(smoothened_line_string) < Len(line_string)

\* The indices a filter kept, the interior indices of a line string, the
\* last index kept before i, and the coordinates at a set of indices.
KeptSet(c) == {c.kept[k] : k \in 1..Len(c.kept)}

Interior(line) == 2..(Len(line) - 1)

Anchor(K, i) == CHOOSE a \in K : a < i /\ \A b \in K : b < i => b <= a

AtIndices(line, K) ==
    [k \in 1..Cardinality(K) |->
        line[CHOOSE i \in K : Cardinality({j \in K : j <= i}) = k]]

\* C6: _smoothen_by_distance keeps the first and the last coordinate, and an
\* interior coordinate exactly when its distance from the last coordinate
\* kept before it is strictly less than the cutoff; so every interior
\* coordinate of the output is closer than the cutoff to the one before it
\* in the output, and only the last pair of the output can be at the cutoff
\* or farther apart.
C6_KeptIffCloserThanCutoffToLastKept ==
    last.op = "_smoothen_by_distance" =>
        LET in == last.input
            K == KeptSet(last)
            out == smoothened_line_string
            cutoff == last.cutoff_distance.val
        IN  /\ {1, Len(in)} \subseteq K
            /\ K \subseteq 1..Len(in)
            /\ out = AtIndices(in, K)
            /\ \A i \in Interior(in) :
                  (i \in K) = (Distance(in[Anchor(K, i)], in[i]) < cutoff)
            /\ \A j \in Interior(out) : Distance(out[j - 1], out[j]) < cutoff

\* An interior coordinate dropped although it is closer than the cutoff to
\* the coordinate before it in the input, and a last pair at the cutoff or
\* farther apart.
C6_Witness ==
    /\ last.op = "_smoothen_by_distance"
    /\ \E i \in Interior(last.input) :
          /\ i \notin KeptSet(last)
          /\ Distance(last.input[i - 1], last.input[i]) < last.cutoff_distance.val
    /\ LET out == smoothened_line_string
       IN  Distance(out[Len(out) - 1], out[Len(out)]) >= last.cutoff_distance.val

\* The three distances _smoothen_by_angle measures at index i, given the
\* indices K it kept.
SideA(in, K, i) == Distance(in[Anchor(K, i)], in[i])
SideB(in, K, i) == Distance(in[Anchor(K, i)], in[i + 1])
SideC(in, K, i) == Distance(in[i], in[i + 1])

\* cur lies on the straight path from prev to next: the three coordinates
\* are on one line and the distances add up.
Straight(in, K, i) ==
    LET prev == in[Anchor(K, i)]
        cur == in[i]
        next == in[i + 1]
    IN  /\ (next[1] - prev[1]) * (cur[2] - prev[2])
              = (next[2] - prev[2]) * (cur[1] - prev[1])
        /\ SideA(in, K, i) > 0
        /\ SideC(in, K, i) > 0
        /\ SideB(in, K, i) = SideA(in, K, i) + SideC(in, K, i)

\* C7, as claimed: _smoothen_by_angle drops every interior coordinate that
\* lies on the straight path from the last kept coordinate to the next one,
\* for every cutoff in (0, 60].
C7_StraightPointsAreDropped ==
    (last.op = "_smoothen_by_angle" /\ last.cutoff_angle.val \in 1..60) =>
        \A i \in Interior(last.input) :
            Straight(last.input, KeptSet(last), i) => i \notin KeptSet(last)

\* C7, amended: _smoothen_by_angle compares the angle between the two lines
\* at the coordinate, 180 degrees on a straight path, with the cutoff.  For
\* every cutoff in [0, 60] it keeps an interior coordinate whose triangle is
\* not degenerate and whose law-of-cosines argument is in [-1, 1/2] (an
\* angle of 60 degrees or more), so it keeps one that lies on the straight
\* path from the last kept coordinate to the next one, where the argument is
\* -1; and it drops a coordinate only if the cutoff is positive and the
\* triangle is degenerate or the argument is above 1/2 (a sharp turn back).
C7_StraightPointsAreKept ==
    (last.op = "_smoothen_by_angle" /\ last.cutoff_angle.val \in 0..60) =>
        LET in == last.input
            K == KeptSet(last)
        IN  \A i \in Interior(in) :
                LET A == SideA(in, K, i)
                    B == SideB(in, K, i)
                    C == SideC(in, K, i)
                    N == A * A + C * C - B * B
                    D == 2 * A * C
                IN  /\ Straight(in, K, i) => i \in K
                    /\ (D > 0 /\ -D <= N /\ 2 * N <= D) => i \in K
                    /\ i \notin K =>
                          /\ last.cutoff_angle.val > 0
                          /\ (D = 0 \/ N < -D \/ 2 * N > D)

\* A call with a positive cutoff that kept a coordinate on the straight path
\* and dropped one at a turn back.
C7_Witness ==
    /\ last.op = "_smoothen_by_angle"
    /\ last.cutoff_angle.val \in 1..60
    /\ \E i \in Interior(last.input) :
          /\ Straight(last.input, KeptSet(last), i)
          /\ i \in KeptSet(last)
    /\ \E i \in Interior(last.input) :
          /\ i \notin KeptSet(last)
          /\ SideA(last.input, KeptSet(last), i) > 0
          /\ SideC(last.input, KeptSet(last), i) > 0

\* The law-of-cosines argument at index i is outside [-1, 1].
OutOfDomain(in, K, i) ==
    LET A == SideA(in, K, i)
        B == SideB(in, K, i)
        C == SideC(in, K, i)
    IN  A * C > 0 /\ (B > A + C \/ (A - C) * (A - C) > B * B)

\* C8: _smoothen_by_angle always completes and writes the smoothened line
\* string; with cutoff 0 it returns its input unchanged; and an interior
\* coordinate whose triangle is degenerate (A*C = 0, or the law-of-cosines
\* argument outside [-1, 1]) has angle 0: it is kept at cutoff 0 and dropped
\* at every cutoff above 0.
C8_DegenerateAngleIsZero ==
    last.op = "_smoothen_by_angle" =>
        LET in == last.input
            K == KeptSet(last)
        IN  /\ last.result = "ok"
            /\ stage_completed
            /\ {1, Len(in)} \subseteq K
            /\ smoothened_line_string = AtIndices(in, K)
            /\ last.cutoff_angle.val = 0 => smoothened_line_string = in
            /\ \A i \in Interior(in) :
                  (SideA(in, K, i) * SideC(in, K, i) = 0 \/ OutOfDomain(in, K, i))
                      => ((i \in K) = (last.cutoff_angle.val = 0))

\* A call with a positive cutoff that dropped a coordinate whose
\* law-of-cosines argument is outside [-1, 1].
C8_Witness ==
    /\ last.op = "_smoothen_by_angle"
    /\ last.cutoff_angle.val > 0
    /\ \E i \in Interior(last.input) :
          /\ OutOfDomain(last.input, KeptSet(last), i)
          /\ i \notin KeptSet(last)

\* C9: at construction the raw line string is the input with every run of
\* consecutive equal coordinates (equal in all three components) replaced by
\* its first coordinate: the first coordinate is kept, the order is kept,
\* repeats that are not consecutive stay, no two consecutive coordinates of
\* the result are equal, and removing duplicates again changes nothing.
C9_ConsecutiveDuplicatesCollapsed ==
    last.op = "__init__" =>
        LET in == last.input
            RunStarts == {i \in 1..Len(in) : i = 1 \/ in[i] # in[i - 1]}
        IN  /\ line_string = AtIndices(in, RunStarts)
            /\ line_string[1] = in[1]
            /\ \A k \in 1..(Len(line_string) - 1) :
                  line_string[k] # line_string[k + 1]
            /\ remove_close_duplicate_coords(line_string) = line_string

\* An input with consecutive duplicates whose result still holds the same
\* coordinate twice, not consecutively, and two consecutive coordinates that
\* differ in elevation only.
C9_Witness ==
    /\ last.op = "__init__"
    /\ Len(line_string) < Len(last.input)
    /\ \E i, j \in 1..Len(line_string) : j > i + 1 /\ line_string[i] = line_string[j]
    /\ \E k \in 1..(Len(line_string) - 1) :
          /\ line_string[k][1] = line_string[k + 1][1]
          /\ line_string[k][2] = line_string[k + 1][2]

====
